---- MODULE Spec2Model ----
(***************************************************************************)
(* State-machine model of transforms.api._dataset.Input: one Input object, *)
(* the configuration it reads, the dataset cache and the REST backend it   *)
(* is composed with.  Every operation records the collaborator calls it    *)
(* made, in order, in `calls`, and what it returned or raised in `ret`.    *)
(***************************************************************************)
EXTENDS Integers, Sequences, FiniteSets, TLC

VARIABLES
    config,        \* TRANSFORMS_FOUNDRY_CONTEXT.config
    cache,         \* cached_foundry_client.cache: dataset version -> dataframe
    input,         \* the Input object (NoInput while none is constructed)
    hist,          \* history of the Input: the answer to the schema lookup of its
                   \* construction, and whether dataframe() was called on it
    op,            \* the last operation performed
    calls,         \* the collaborator calls the last operation made, in order
    ret            \* what the last operation returned or raised

vars == <<config, cache, input, hist, op, calls, ret>>

----------------------------------------------------------------------------
(* Bounds and value domains *)

MaxDF == 2

None == "None"
NoDataFrame == 0
DataFrames == 1..MaxDF
TxRids == {"ri.tx.1", "ri.tx.2"}
Branches == {"master", "dev"}
Thresholds == {1, 2}
BytesPerMegaByte == 1024 * 1024
\* dataset sizes in bytes: at the smallest threshold, just above it, and so
\* below the other threshold
Sizes == {BytesPerMegaByte, BytesPerMegaByte + 1}

\* dataset_identity["last_transaction"]["transaction"]: whether it is a view,
\* and its metadata.totalFileSize
NoTransaction == [view |-> FALSE, totalFileSize |-> 0]
Transactions ==
    {[view |-> TRUE, totalFileSize |-> 0]}
        \cup {[view |-> FALSE, totalFileSize |-> sz] : sz \in Sizes}

NoInput == [constructed |-> FALSE]

\* api_types.DatasetIdentity of the one dataset (alias) under consideration
DatasetIdentity(tx, transaction) ==
    [last_transaction_rid |-> tx, last_transaction |-> transaction]

Call(target, method, arg, result) ==
    [target |-> target, method |-> method, arg |-> arg, result |-> result]

Returned(v) == [kind |-> "return", value |-> v]
Raised(e) == [kind |-> "raise", value |-> e]

----------------------------------------------------------------------------
(* Input._is_online *)

\* mutant: the freeze_cache setting is ignored
IsOnlineAlways(cfg) == TRUE

IsOnline(cfg) == ~cfg.transforms_freeze_cache

----------------------------------------------------------------------------
(* _get_branch: the ref name read from .git/HEAD, "HEAD" when HEAD is not  *)
(* a ref, "master" when there is no .git/HEAD file.                        *)

\* .git/HEAD as <<its first 16 characters, the rest>>, or <<>> when absent
HeadFiles == {<<"ref: refs/heads/", "dev">>, <<"0a1b2c3d4e5f6071", "8293a4b5">>, <<>>}

GetBranch(head) ==
    IF head = <<>> THEN "master"
    ELSE IF head[1] = "ref: refs/heads/" THEN head[2]
    ELSE "HEAD"

----------------------------------------------------------------------------
(* Collaborators.  The REST client's answers are inputs of the actions;    *)
(* the cached client's load_dataset and _fetch_dataset act on the cache.   *)

\* what foundry_rest_client.get_dataset_identity can answer: an identity
\* (whose last_transaction_rid may be None) or BranchNotFoundError
IdentityAnswers ==
    {[found |-> FALSE, identity |-> DatasetIdentity(None, NoTransaction)],
     [found |-> TRUE, identity |-> DatasetIdentity(None, NoTransaction)]}
        \cup {[found |-> TRUE, identity |-> DatasetIdentity(tx, t)] :
                 tx \in TxRids, t \in Transactions}

\* what foundry_rest_client.get_dataset_schema can do: return or raise
SchemaAnswers == {"schema", "DatasetHasNoSchemaError"}

\* the cache files a dataset version under its dataset rid and transaction rid
CacheKey(identity) == identity.last_transaction_rid

InCache(c, identity) == CacheKey(identity) \in DOMAIN c

\* cache.get_dataset_identity_not_branch_aware: the identity of a version of
\* the dataset the cache holds, or an error when it holds none
CacheIdentityAnswers(c) ==
    IF DOMAIN c = {}
    THEN {[found |-> FALSE, identity |-> DatasetIdentity(None, NoTransaction)]}
    ELSE {[found |-> TRUE, identity |-> DatasetIdentity(tx, t)] :
             tx \in DOMAIN c, t \in Transactions}

CachePut(c, identity, df) ==
    [k \in DOMAIN c \cup {CacheKey(identity)} |->
        IF k = CacheKey(identity) THEN df ELSE c[k]]

CacheDel(c, k) == [j \in DOMAIN c \ {k} |-> c[j]]

\* cached_foundry_client.load_dataset: fetches the dataset unless the cache
\* holds it, caches it, and returns the cache entry
LoadDataset(c, identity, branch, df) ==
    LET c2 == IF InCache(c, identity) THEN c ELSE CachePut(c, identity, df)
    IN [calls |-> <<Call("cached_client", "load_dataset", branch, c2[CacheKey(identity)])>>,
        spark_df |-> c2[CacheKey(identity)],
        cache |-> c2]

\* cached_foundry_client._fetch_dataset: downloads the files unless the cache
\* holds the dataset, and returns the local path
FetchDataset(c, identity, branch, df) ==
    [calls |-> <<Call("cached_client", "_fetch_dataset", branch, "path")>>,
     cache |-> IF InCache(c, identity) THEN c ELSE CachePut(c, identity, df)]

----------------------------------------------------------------------------
(* Input._online and Input._offline *)

\* mutant: the retry is made on "master" but the requested branch is kept
ResolveIdentityKeepsBranch(branch, r1, r2) ==
    IF r1.found
    THEN [calls |-> <<Call("rest", "get_dataset_identity", branch, r1)>>,
          raised |-> FALSE, dataset_identity |-> r1.identity, branch |-> branch]
    ELSE [calls |-> <<Call("rest", "get_dataset_identity", branch, r1),
                      Call("rest", "get_dataset_identity", "master", r2)>>,
          raised |-> ~r2.found, dataset_identity |-> r2.identity, branch |-> branch]

\* the try/except around get_dataset_identity
ResolveIdentity(branch, r1, r2) ==
    IF r1.found
    THEN [calls |-> <<Call("rest", "get_dataset_identity", branch, r1)>>,
          raised |-> FALSE, dataset_identity |-> r1.identity, branch |-> branch]
    ELSE [calls |-> <<Call("rest", "get_dataset_identity", branch, r1),
                      Call("rest", "get_dataset_identity", "master", r2)>>,
          raised |-> ~r2.found, dataset_identity |-> r2.identity, branch |-> "master"]

\* mutant: DatasetHasNoSchemaError is swallowed but the answer is still True
DatasetHasSchemaAlways(identity, branch, s) ==
    [calls |-> <<Call("rest", "get_dataset_schema", branch, s)>>,
     result |-> TRUE]

\* Input._dataset_has_schema
DatasetHasSchema(identity, branch, s) ==
    [calls |-> <<Call("rest", "get_dataset_schema", branch, s)>>,
     result |-> (s # "DatasetHasNoSchemaError")]

Failure(calls_, e) ==
    [raised |-> e, calls |-> calls_, is_spark_df_retrievable |-> FALSE,
     dataset_identity |-> DatasetIdentity(None, NoTransaction), branch |-> ""]

\* mutant: the check for transactions is left out
HasNoTransactionsUnchecked(identity) == FALSE

HasNoTransactions(identity) == identity.last_transaction_rid = None

\* mutant: the construction loads the dataset as soon as it is resolved
OnlineEager(branch, r1, r2, s) ==
    LET res == ResolveIdentity(branch, r1, r2)
        hs == DatasetHasSchema(res.dataset_identity, res.branch, s)
    IN IF res.raised THEN Failure(res.calls, "BranchNotFoundError")
       ELSE IF HasNoTransactions(res.dataset_identity)
       THEN Failure(res.calls, "DatasetHasNoTransactionsError")
       ELSE [raised |-> "",
             calls |-> res.calls \o hs.calls
                         \o <<Call("cached_client", "load_dataset", res.branch, NoDataFrame)>>,
             is_spark_df_retrievable |-> hs.result,
             dataset_identity |-> res.dataset_identity, branch |-> res.branch]

Online(branch, r1, r2, s) ==
    LET res == ResolveIdentity(branch, r1, r2)
        hs == DatasetHasSchema(res.dataset_identity, res.branch, s)
    IN IF res.raised THEN Failure(res.calls, "BranchNotFoundError")
       ELSE IF HasNoTransactions(res.dataset_identity)
       THEN Failure(res.calls, "DatasetHasNoTransactionsError")
       ELSE [raised |-> "", calls |-> res.calls \o hs.calls,
             is_spark_df_retrievable |-> hs.result,
             dataset_identity |-> res.dataset_identity, branch |-> res.branch]

Offline(branch, ci, s) ==
    LET lookup == <<Call("cache", "get_dataset_identity_not_branch_aware", "alias", ci)>>
    IN IF ~ci.found THEN Failure(lookup, "DatasetNotFoundInCache")
       ELSE [raised |-> "",
             calls |-> lookup \o <<Call("cache", "dataset_has_schema", "alias", s)>>,
             is_spark_df_retrievable |-> (s # "DatasetHasNoSchemaError"),
             dataset_identity |-> ci.identity, branch |-> branch]

----------------------------------------------------------------------------
(* Input._retrieve_spark_df and what it calls *)

SizeInBytes(identity, stats_size) ==
    IF identity.last_transaction.view THEN stats_size
    ELSE identity.last_transaction.totalFileSize

\* mutant: <= for <
AtMostThreshold(size_in_bytes, threshold) == size_in_bytes <= threshold * BytesPerMegaByte

\* size_in_bytes / 1024 / 1024 < threshold; the division by a power of two
\* is exact, so the comparison is the one on bytes
BelowThreshold(size_in_bytes, threshold) == size_in_bytes < threshold * BytesPerMegaByte

\* mutant: only the force-full setting decides
FullDownloadForcedOnly(cfg, size_in_bytes) == cfg.transforms_force_full_dataset_download

FullDownload(cfg, size_in_bytes) ==
    cfg.transforms_force_full_dataset_download
        \/ BelowThreshold(size_in_bytes, cfg.transforms_sql_dataset_size_threshold)

StatsCalls(identity, stats_size) ==
    IF identity.last_transaction.view
    THEN <<Call("rest", "foundry_stats", identity.last_transaction_rid, stats_size)>>
    ELSE <<>>

\* mutant: the query result is returned but not written to the cache
SampledQueryNotCached(c, identity, branch, df) ==
    [calls |-> <<Call("warnings", "warn", branch, "subset"),
                 Call("rest", "query_foundry_sql", branch, df)>>,
     spark_df |-> df,
     cache |-> c]

\* the warning, Input._read_spark_df_with_sql_query, and the cache write
SampledQuery(c, identity, branch, df) ==
    [calls |-> <<Call("warnings", "warn", branch, "subset"),
                 Call("rest", "query_foundry_sql", branch, df),
                 Call("cache", "__setitem__", branch, df)>>,
     spark_df |-> df,
     cache |-> CachePut(c, identity, df)]

RetrieveFromFoundryAndCache(cfg, c, identity, branch, stats_size, df) ==
    LET size_in_bytes == SizeInBytes(identity, stats_size)
        fetch == IF FullDownload(cfg, size_in_bytes)
                 THEN LoadDataset(c, identity, branch, df)
                 ELSE SampledQuery(c, identity, branch, df)
    IN [calls |-> StatsCalls(identity, stats_size) \o fetch.calls,
        raised |-> "", spark_df |-> fetch.spark_df, cache |-> fetch.cache,
        size_in_bytes |-> size_in_bytes]

\* cache[dataset_identity]
RetrieveFromCache(c, identity, branch) ==
    IF InCache(c, identity)
    THEN [calls |-> <<Call("cache", "__getitem__", branch, c[CacheKey(identity)])>>,
          raised |-> "", spark_df |-> c[CacheKey(identity)], cache |-> c,
          size_in_bytes |-> 0]
    ELSE [calls |-> <<Call("cache", "__getitem__", branch, NoDataFrame)>>,
          raised |-> "KeyError", spark_df |-> NoDataFrame, cache |-> c,
          size_in_bytes |-> 0]

\* mutant: the cache is not consulted, the backend is always asked
RetrieveSparkDfNoCacheCheck(cfg, c, identity, branch, stats_size, df) ==
    RetrieveFromFoundryAndCache(cfg, CacheDel(c, CacheKey(identity)), identity, branch,
                                stats_size, df)

RetrieveSparkDf(cfg, c, identity, branch, stats_size, df) ==
    LET hit == InCache(c, identity)
        got == IF hit THEN RetrieveFromCache(c, identity, branch)
               ELSE RetrieveFromFoundryAndCache(cfg, c, identity, branch, stats_size, df)
    IN [got EXCEPT !.calls = <<Call("cache", "keys", branch, hit)>> \o @]

\* mutant: the dataframe already held is not reused
DataframeCallNoMemo(cfg, c, inp, stats_size, df) ==
    IF inp._is_spark_df_retrievable
    THEN IF IsOnline(cfg)
         THEN RetrieveSparkDf(cfg, c, inp._dataset_identity, inp.branch, stats_size, df)
         ELSE RetrieveFromCache(c, inp._dataset_identity, inp.branch)
    ELSE [calls |-> <<>>, raised |-> "", spark_df |-> inp._spark_df, cache |-> c,
          size_in_bytes |-> 0]

\* Input.dataframe: what the call does to (_spark_df, cache) and what it calls
DataframeCall(cfg, c, inp, stats_size, df) ==
    IF inp._is_spark_df_retrievable /\ inp._spark_df = NoDataFrame
    THEN IF IsOnline(cfg)
         THEN RetrieveSparkDf(cfg, c, inp._dataset_identity, inp.branch, stats_size, df)
         ELSE RetrieveFromCache(c, inp._dataset_identity, inp.branch)
    ELSE [calls |-> <<>>, raised |-> "", spark_df |-> inp._spark_df, cache |-> c,
          size_in_bytes |-> 0]

\* Input.get_local_path_to_dataset
LocalPathCall(cfg, c, inp, df) ==
    IF IsOnline(cfg)
    THEN FetchDataset(c, inp._dataset_identity, inp.branch, df)
    ELSE [calls |-> <<Call("cache", "get_path_to_local_dataset", inp.branch, "path")>>,
          cache |-> c]

----------------------------------------------------------------------------
(* The state machine *)

Configs ==
    [transforms_freeze_cache : BOOLEAN,
     transforms_force_full_dataset_download : BOOLEAN,
     transforms_sql_dataset_size_threshold : Thresholds]

\* what is recorded of an operation: its name, the branch asked for, and for
\* dataframe() whether it was the first call on the Input, whether the cache
\* held the identity when it started, and the size it compared
Idle == [name |-> "idle", branch |-> "", first |-> FALSE, hit |-> FALSE, size_in_bytes |-> 0]

NoHistory == [schema |-> "none", dataframe_called |-> FALSE]

Init ==
    /\ config \in Configs
    /\ cache = <<>>
    /\ input = NoInput
    /\ hist = NoHistory
    /\ op = Idle
    /\ calls = <<>>
    /\ ret = Returned(NoDataFrame)

\* Input.__init__, the branch given or found by _get_branch
Construct(branch, res) ==
    /\ op' = [Idle EXCEPT !.name = "Input", !.branch = branch]
    /\ calls' = res.calls
    /\ IF res.raised # ""
       THEN /\ input' = NoInput
            /\ ret' = Raised(res.raised)
       ELSE /\ input' = [constructed |-> TRUE,
                         _spark_df |-> NoDataFrame,
                         _is_spark_df_retrievable |-> res.is_spark_df_retrievable,
                         _dataset_identity |-> res.dataset_identity,
                         branch |-> res.branch]
            /\ ret' = Returned(NoDataFrame)
    /\ UNCHANGED <<config, cache>>

InitInput(branch) ==
    IF IsOnline(config)
    THEN \E r1, r2 \in IdentityAnswers, s \in SchemaAnswers :
            /\ r1.found => r2 = r1
            /\ hist' = [schema |-> s, dataframe_called |-> FALSE]
            /\ Construct(branch, Online(branch, r1, r2, s))
    ELSE \E ci \in CacheIdentityAnswers(cache), s \in SchemaAnswers :
            /\ hist' = [schema |-> s, dataframe_called |-> FALSE]
            /\ Construct(branch, Offline(branch, ci, s))

NewInput == \E branch \in Branches : InitInput(branch)

NewInputGitBranch == \E head \in HeadFiles : InitInput(GetBranch(head))

Dataframe ==
    /\ input.constructed
    /\ \E stats_size \in Sizes, df \in DataFrames :
        LET res == DataframeCall(config, cache, input, stats_size, df)
        IN /\ op' = [Idle EXCEPT !.name = "dataframe", !.first = ~hist.dataframe_called,
                                 !.hit = InCache(cache, input._dataset_identity),
                                 !.size_in_bytes = res.size_in_bytes]
           /\ calls' = res.calls
           /\ cache' = res.cache
           /\ IF res.raised # ""
              THEN /\ ret' = Raised(res.raised)
                   /\ input' = input
              ELSE /\ ret' = Returned(res.spark_df)
                   /\ input' = [input EXCEPT !._spark_df = res.spark_df]
    /\ hist' = [hist EXCEPT !.dataframe_called = TRUE]
    /\ UNCHANGED config

GetLocalPathToDataset ==
    /\ input.constructed
    /\ \E df \in DataFrames :
        LET res == LocalPathCall(config, cache, input, df)
        IN /\ op' = [Idle EXCEPT !.name = "get_local_path_to_dataset"]
           /\ calls' = res.calls
           /\ cache' = res.cache
           /\ ret' = Returned("path")
    /\ UNCHANGED <<config, input, hist>>

\* the environment: one setting of the configuration is changed between calls
SetConfig ==
    /\ \E cfg \in Configs :
        /\ Cardinality({f \in DOMAIN cfg : cfg[f] # config[f]}) = 1
        /\ config' = cfg
    /\ op' = Idle
    /\ calls' = <<>>
    /\ ret' = Returned(NoDataFrame)
    /\ UNCHANGED <<cache, input, hist>>

\* the environment: a cache entry is evicted between calls
Evict ==
    /\ \E k \in DOMAIN cache : cache' = CacheDel(cache, k)
    /\ op' = Idle
    /\ calls' = <<>>
    /\ ret' = Returned(NoDataFrame)
    /\ UNCHANGED <<config, input, hist>>

Next ==
    \/ NewInput
    \/ NewInputGitBranch
    \/ Dataframe
    \/ GetLocalPathToDataset
    \/ SetConfig
    \/ Evict

Spec == Init /\ [][Next]_vars

----------------------------------------------------------------------------
(* Reading the record of the last operation *)

Methods == {calls[i].method : i \in DOMAIN calls}
Targets == {calls[i].target : i \in DOMAIN calls}
CallsTo(m) == {i \in DOMAIN calls : calls[i].method = m}

IdentityLookups == {"get_dataset_identity", "get_dataset_identity_not_branch_aware"}
SchemaLookups == {"get_dataset_schema", "dataset_has_schema"}
\* the calls that download, query or read data
DataMethods ==
    {"load_dataset", "query_foundry_sql", "foundry_stats", "_fetch_dataset",
     "__getitem__", "get_path_to_local_dataset"}

OnlineMode == ~config.transforms_freeze_cache
IsConstruction == op.name = "Input"
IsDataframe == op.name = "dataframe"

\* the first identity lookup of an online construction failed with
\* BranchNotFoundError
BranchNotFound ==
    /\ IsConstruction /\ OnlineMode
    /\ calls # <<>>
    /\ calls[1].method = "get_dataset_identity"
    /\ ~calls[1].result.found

\* a dataframe() call in online mode that found the identity missing from the
\* cache and went to the backend
FetchedOnMiss ==
    /\ IsDataframe /\ OnlineMode
    /\ calls # <<>>
    /\ calls[1].method = "keys"
    /\ calls[1].result = FALSE

TookFullDownload ==
    "load_dataset" \in Methods /\ Methods \cap {"warn", "query_foundry_sql"} = {}

\* the warning comes first, then the query; no full download
TookSampledQuery ==
    /\ "load_dataset" \notin Methods
    /\ \E i \in CallsTo("warn") : \E j \in CallsTo("query_foundry_sql") : i < j

Threshold == config.transforms_sql_dataset_size_threshold * BytesPerMegaByte
ForceFull == config.transforms_force_full_dataset_download

----------------------------------------------------------------------------
(* C1: in online mode, when the identity lookup on the requested branch    *)
(* fails with BranchNotFoundError, the construction retries exactly once,  *)
(* on "master"; when the retry succeeds and an Input results, its identity *)
(* is the one returned for "master", its branch is "master", and the       *)
(* schema lookup is made on "master".                                      *)
C1_RetryOnMaster ==
    BranchNotFound =>
        /\ Cardinality(CallsTo("get_dataset_identity")) = 2
        /\ calls[2].method = "get_dataset_identity"
        /\ calls[2].arg = "master"
        /\ (calls[2].result.found /\ input.constructed) =>
              /\ input._dataset_identity = calls[2].result.identity
              /\ input.branch = "master"
              /\ \A i \in CallsTo("get_dataset_schema") : calls[i].arg = "master"
        /\ ~calls[2].result.found => ret = Raised("BranchNotFoundError")

C1_Witness ==
    /\ BranchNotFound
    /\ op.branch = "dev"
    /\ input.constructed
    /\ input.branch = "master"
    /\ CallsTo("get_dataset_schema") # {}

C3_FileOnly ==
    /\ (IsConstruction /\ \E i \in DOMAIN calls :
            /\ calls[i].method \in SchemaLookups
            /\ calls[i].result = "DatasetHasNoSchemaError")
        => ret.kind = "return" /\ input.constructed
    /\ (input.constructed /\ hist.schema = "DatasetHasNoSchemaError")
        => /\ ~input._is_spark_df_retrievable
           /\ input._spark_df = NoDataFrame
           /\ IsDataframe => (ret = Returned(NoDataFrame) /\ calls = <<>>)

C3_Witness ==
    /\ IsDataframe
    /\ hist.schema = "DatasetHasNoSchemaError"
    /\ ~op.first
    /\ op.hit
    /\ ret = Returned(NoDataFrame)

(* C4, as stated: on a cache miss in online mode a size below the          *)
(* threshold takes the full download and no query, and a size above the    *)
(* threshold takes the sampled query, after a warning, and no download.    *)
C4_AsStated ==
    FetchedOnMiss =>
        /\ op.size_in_bytes < Threshold => TookFullDownload
        /\ op.size_in_bytes > Threshold => TookSampledQuery

(* C4, amended: on a cache miss in online mode a size below the threshold  *)
(* takes the full download and no query; a size above the threshold takes  *)
(* the sampled query, after a warning, and no download, unless             *)
(* transforms_force_full_dataset_download is set.                          *)
C4_SizeDecides ==
    FetchedOnMiss =>
        /\ op.size_in_bytes < Threshold => TookFullDownload
        /\ (op.size_in_bytes > Threshold /\ ~ForceFull) => TookSampledQuery

C4_Witness ==
    /\ FetchedOnMiss
    /\ op.size_in_bytes > Threshold
    /\ ~ForceFull
    /\ TookSampledQuery

(* C5, as stated: in online mode, when the cache holds the Input's         *)
(* identity, the first dataframe() call returns the cached dataframe and   *)
(* makes no stats lookup, download or query.                               *)
C5_AsStated ==
    (IsDataframe /\ OnlineMode /\ op.first /\ op.hit) =>
        /\ ret = Returned(cache[CacheKey(input._dataset_identity)])
        /\ Methods \cap {"foundry_stats", "load_dataset", "query_foundry_sql"} = {}

(* C5, amended: in online mode, when the cache holds the identity of an    *)
(* Input that is not in file-only mode, the first dataframe() call returns *)
(* the cached dataframe and makes no stats lookup, download or query,      *)
(* whatever the size, the threshold and the force-full setting are.        *)
C5_CacheHit ==
    (IsDataframe /\ OnlineMode /\ op.first /\ op.hit /\ input._is_spark_df_retrievable) =>
        /\ ret = Returned(cache[CacheKey(input._dataset_identity)])
        /\ Methods = {"keys", "__getitem__"}
        /\ input._spark_df = cache[CacheKey(input._dataset_identity)]

C5_Witness ==
    /\ IsDataframe /\ OnlineMode /\ op.first /\ op.hit
    /\ input._is_spark_df_retrievable
    /\ ForceFull
    /\ ~input._dataset_identity.last_transaction.view
    /\ input._dataset_identity.last_transaction.totalFileSize > Threshold
    /\ ret.kind = "return"
    /\ ret.value # NoDataFrame

C7_Lazy ==
    /\ IsConstruction => Methods \subseteq IdentityLookups \cup SchemaLookups
    /\ Methods \cap DataMethods # {} => op.name \in {"dataframe", "get_local_path_to_dataset"}
    /\ (IsConstruction /\ input.constructed) => input._spark_df = NoDataFrame

C7_Witness ==
    /\ IsConstruction
    /\ input.constructed
    /\ input._is_spark_df_retrievable
    /\ Methods = {"get_dataset_identity", "get_dataset_schema"}

(* C8: once the Input holds a dataframe that a dataframe() call returned,  *)
(* every later operation on it keeps that dataframe, and every later       *)
(* dataframe() call returns it and calls no collaborator.                  *)
C8_Memoized ==
    [][(/\ input.constructed
        /\ input._spark_df # NoDataFrame
        /\ op'.name # "Input")
       => /\ input'.constructed
          /\ input'._spark_df = input._spark_df
          /\ op'.name = "dataframe" => (ret' = Returned(input._spark_df) /\ calls' = <<>>)]_vars

\* a memoized answer although the entry was evicted and the mode is offline
C8_Witness ==
    /\ IsDataframe
    /\ ~op.first
    /\ calls = <<>>
    /\ ret.kind = "return"
    /\ ret.value # NoDataFrame
    /\ ~InCache(cache, input._dataset_identity)
    /\ ~OnlineMode

(* C9: an operation performed in offline mode calls the cache only: the    *)
(* construction looks up the identity and the schema flag in the cache and *)
(* keeps the requested branch, dataframe() reads only the cache entry, and *)
(* get_local_path_to_dataset() only asks the cache for the path.           *)
C9_OfflineCacheOnly ==
    ~OnlineMode =>
        /\ Targets \subseteq {"cache"}
        /\ IsConstruction =>
              /\ Methods \subseteq {"get_dataset_identity_not_branch_aware", "dataset_has_schema"}
              /\ input.constructed => input.branch = op.branch
        /\ IsDataframe => Methods \subseteq {"__getitem__"}
        /\ op.name = "get_local_path_to_dataset" => Methods = {"get_path_to_local_dataset"}

C9_Witness ==
    /\ ~OnlineMode
    /\ IsDataframe
    /\ Methods = {"__getitem__"}
    /\ ret.kind = "return"
    /\ input.branch = "dev"

(* C10: on a cache miss in online mode the full download is taken exactly  *)
(* when force-full is set or the size is strictly below the threshold, and *)
(* the sampled query, after its warning, otherwise; a size equal to the    *)
(* threshold takes the sampled query.                                      *)
C10_ExactDecision ==
    FetchedOnMiss =>
        IF ForceFull \/ op.size_in_bytes < Threshold
        THEN TookFullDownload
        ELSE TookSampledQuery

C10_Witness ==
    /\ FetchedOnMiss
    /\ op.size_in_bytes = Threshold
    /\ TookSampledQuery

====
